---- MODULE Spec2Model ----
(***************************************************************************)
(* Model of the chunked scan / repair / format engine of dm_int_tools      *)
(* (src/main.c): cmd_dev, rw_sectors, its per-sector fallback              *)
(* check_one_by_one and the progress reporter print_progress.              *)
(*                                                                         *)
(* Every system call on the device is one step whose outcome the           *)
(* environment chooses.  Sizes and file positions are counted in sectors;  *)
(* byte counts are sectors * SECTOR_SIZE.  The device extent is a 64-bit   *)
(* byte count divided by 512 (device_size_sec), so offset_sec +            *)
(* block_sectors stays far below 2^64 and the uint64_t sums never wrap.    *)
(*                                                                         *)
(* Three specifications run the same program:                              *)
(*   Spec       small devices, every pattern of failing calls;             *)
(*   AllocSpec  the same with chunk sizes around 2^22 and 2^23 sectors,    *)
(*              where the 32-bit size of the chunk buffer overflows;       *)
(*   ProgSpec   devices of whole MiB with every call succeeding and the    *)
(*              wall clock moving freely, where print_progress reports.    *)
(***************************************************************************)
EXTENDS Integers, Sequences, FiniteSets, TLC

\* ------------------------------------------------------------- bounds
\* Largest device extent, in sectors.
MaxDev == 3
\* Largest configured chunk size (--blocksize), in sectors.
MaxBlock == 3
\* Largest number of failing system calls the environment injects in a run.
MaxFaults == 3
\* The time a chunk's I/O takes in Spec, in ticks of the wall clock (ProgSpec
\* varies it from chunk to chunk).
MaxTick == 1

\* Bounds of the progress specification ProgSpec, whose devices are large
\* enough for whole MiB counts. Sizes there are multiples of ProgUnit sectors.
ProgUnit == 1024
\* Largest device extent of ProgSpec, in units of ProgUnit sectors.
MaxProgDev == 4
\* Largest chunk size of ProgSpec, in units of ProgUnit sectors.
MaxProgBlock == 2
\* Largest step of the wall clock over one chunk of ProgSpec, in ticks.
MaxProgTick == 2

\* Bits in the significand of a modelled double, and the largest binary
\* exponent, up or down, a modelled double takes.
FloatBits == 6
MaxExp == 14

\* ---------------------------------------------------- program constants
SECTOR_SIZE == 512
EXIT_FAILURE == 1
\* One tick of the modelled wall clock, in microseconds.
TickUsec == 250000
\* The wall clock when the operation starts (any non-zero time of day).
T0 == 1000000

\* 2^32 / SECTOR_SIZE: the chunk size, in sectors, at which the unsigned int
\* product block_sectors * SECTOR_SIZE of line 229 wraps to zero.
UintWrapSectors == 8388608
\* 2^31 / SECTOR_SIZE: the size, in sectors, from which that product no longer
\* fits the int size parameter of aligned_malloc.
IntMaxSectors == 4194304

DEV_CHECK == "DEV_CHECK"
DEV_FIX == "DEV_FIX"
DEV_FORMAT == "DEV_FORMAT"
dev_command == {DEV_CHECK, DEV_FIX, DEV_FORMAT}

EIO == "EIO"
EILSEQ == "EILSEQ"
\* Any errno value other than EIO and EILSEQ.
EOTHER == "EOTHER"
\* errno before any call has failed.
ENONE == "ENONE"

Sectors == 0 .. (MaxDev - 1)
Slots == 0 .. (MaxBlock - 1)

VARIABLES
    dc,              \* rw_sectors parameter: the mode
    _randomize,      \* global: fill policy
    block_sectors,   \* global: configured chunk size
    dev_size_sec,    \* rw_sectors parameter: device extent
    offset_sec,      \* rw_sectors parameter, advanced by the loop
    block_size_sec,  \* rw_sectors local: size of the current chunk
    sector,          \* check_one_by_one local: the loop variable
    pc,              \* position in rw_sectors / check_one_by_one
    ret,             \* value returned by rw_sectors ("none" while running)
    errno,           \* the C library's errno
    devfd,           \* "none", "open" or "closed"
    flags,           \* access mode the device was opened with
    filepos,         \* file position of devfd, in sectors
    sf,              \* the chunk buffer, one entry per sector slot
    allocated,       \* whether the chunk buffer is allocated
    disk,            \* contents of the device, one entry per sector
    start_time,      \* print_progress static
    end_time,        \* print_progress static
    now_time,        \* print_progress static
    clock,           \* the wall clock, in microseconds
    io_ticks,        \* the time the device takes per chunk, in ticks
    io,              \* every system call issued on devfd, in order
    out,             \* every line printed to stdout, in order
    calls,           \* every call of print_progress, in order
    faults           \* failing system calls injected so far

vars == <<dc, _randomize, block_sectors, dev_size_sec, offset_sec,
          block_size_sec, sector, pc, ret, errno, devfd, flags, filepos, sf,
          allocated, disk, start_time, end_time, now_time, clock, io_ticks,
          io, out, calls, faults>>

cfgVars == <<dc, _randomize, block_sectors, dev_size_sec, io_ticks>>
progVars == <<start_time, end_time, now_time, clock, calls>>

\* ------------------------------------------------------------ helpers
\* init_sector: the contents a sector buffer gets.
init_sector(randomize) == IF randomize THEN "random" ELSE "zero"

\* Mutant of ChunkSize: the last chunk is not clamped to the remainder.
ChunkSizeNoClamp(offset, blk, dev) == blk

\* rw_sectors lines 245-248: the size of the chunk starting at offset.
ChunkSize(offset, blk, dev) ==
    IF (offset + blk) > dev THEN dev - offset ELSE blk

\* Mutant of OpenFlags: every command opens the device read-write.
OpenFlagsReadWrite(cmd) == "O_RDWR"

\* rw_sectors lines 233-236: the access mode for a command.
OpenFlags(cmd) == IF cmd = DEV_CHECK THEN "O_RDONLY" ELSE "O_RDWR"

\* Mutant of FillBuffer: only the first sector slot is initialised.
FillBufferFirstOnly(buf, n, randomize) ==
    [i \in DOMAIN buf |-> IF i < 1 THEN init_sector(randomize) ELSE buf[i]]

\* rw_sectors lines 259-260: init_sector on the first n sector slots.
FillBuffer(buf, n, randomize) ==
    [i \in DOMAIN buf |-> IF i < n THEN init_sector(randomize) ELSE buf[i]]

\* Mutant of IsMediaError: every errno value counts as a media error.
IsMediaErrorAny(e) == TRUE

\* check_one_by_one line 193: the errno values of an expected media error.
IsMediaError(e) == e = EIO \/ e = EILSEQ

\* Mutant of RewriteBadSector: the test excludes the wrong command.
RewriteUnlessFormat(cmd) == cmd # DEV_FORMAT

\* check_one_by_one line 198: whether a bad sector is overwritten.
RewriteBadSector(cmd) == cmd = DEV_FIX

\* What a read of n sectors at position p that returned k sectors leaves in
\* the buffer.
ReadInto(buf, d, p, k) ==
    [i \in DOMAIN buf |-> IF i < k /\ (p + i) \in DOMAIN d THEN d[p + i] ELSE buf[i]]

\* What a write at position p that transferred k sectors leaves on the device.
WriteFrom(d, buf, p, k) ==
    [s \in DOMAIN d |-> IF s >= p /\ s < p + k /\ (s - p) \in DOMAIN buf
                        THEN buf[s - p] ELSE d[s]]

Line(msg, sec, err) == [msg |-> msg, sector |-> sec, errno |-> err]

Call(op, ctx, pos, len, r, err) ==
    [op |-> op, ctx |-> ctx, pos |-> pos, len |-> len, ret |-> r, errno |-> err]

\* time_diff: the difference between two times, in microseconds.
time_diff(start, end) == end - start

\* The outcome of one call of print_progress: the new statics, the line
\* printed ("none" when the call returns without printing), the number of
\* divisions executed (line 151, then line 156) and their operands: the
\* elapsed time in microseconds, the whole MiB processed, and the ETA as
\* computed at line 156, before its conversion to an integer.
Report(st, et, line, divs, tdiff, mbytes, eta) ==
    [start_time |-> st, end_time |-> et, line |-> line, divs |-> divs,
     tdiff |-> tdiff, mbytes |-> mbytes, eta |-> eta]

\* Mutant of Throttled: the interval is measured from the start of the run.
ThrottledSinceStart(st, et, final, now) ==
    ~final /\ 2 * time_diff(st, now) < 1000000

\* print_progress line 141: a non-final call less than 0.5 s after end_time.
Throttled(st, et, final, now) ==
    ~final /\ 2 * time_diff(et, now) < 1000000

\* Mutant of ZeroElapsed: the elapsed time is never taken for zero.
ZeroElapsedNever(tdiff) == FALSE

\* print_progress line 147: !tdiff.
ZeroElapsed(tdiff) == tdiff = 0

\* print_progress lines 150-152: mib = (double)mbytes / tdiff is zero exactly
\* when mbytes is (tdiff is finite and not zero here).
ZeroThroughput(mbytes, tdiff) == mbytes = 0

\* ------------------------------------------------- double arithmetic
\* tdiff, mib and the ETA are doubles. A double is modelled as a pair
\* [m, e] standing for m * 2^e with a significand m of FloatBits bits (53 in
\* the program), and a division as the exact quotient rounded to the nearest
\* such number, ties to even.
RoundDiv(a, b) ==
    LET q == a \div b
        r == a % b
    IN  IF 2 * r > b \/ (2 * r = b /\ q % 2 = 1) THEN q + 1 ELSE q

\* The double nearest to n / d, for integers n > 0 and d > 0.
FRound(n, d) ==
    LET lo == 2 ^ (FloatBits - 1)
        hi == 2 ^ FloatBits
        up == {k \in 0 .. MaxExp :
                  /\ 2 ^ k <= (hi * d - 1) \div n
                  /\ lo * d <= n * (2 ^ k)}
        s == IF up # {}
             THEN CHOOSE k \in up : TRUE
             ELSE 0 - (CHOOSE k \in 1 .. MaxExp :
                          /\ 2 ^ k <= n \div (lo * d)
                          /\ n < hi * d * (2 ^ k))
        m == IF s >= 0 THEN RoundDiv(n * (2 ^ s), d)
             ELSE RoundDiv(n, d * (2 ^ (0 - s)))
    IN  IF m = hi THEN [m |-> lo, e |-> 1 - s] ELSE [m |-> m, e |-> 0 - s]

\* The double nearest to n / x, for an integer n > 0 and a double x > 0.
FDiv(n, x) == LET q == FRound(n, x.m) IN [m |-> q.m, e |-> q.e - x.e]

\* The value of a double in units of 2^-MaxExp.
FValue(x) == x.m * (2 ^ (x.e + MaxExp))

Abs(n) == IF n < 0 THEN 0 - n ELSE n

\* The ETA of line 156 in units of 2^-MaxExp seconds: one second.
EtaSecond == 2 ^ MaxExp

\* Mutant of Eta: the operands of the subtraction are exchanged.
EtaSwapped(device_size, mbytes, tdiff) ==
    LET t == FRound(Abs(tdiff), 1000000)
        mib == FDiv(mbytes, t)
        q == FDiv((device_size \div 1024) \div 1024, mib)
    IN  (IF tdiff < 0 THEN 0 - 1 ELSE 1) * (FValue(t) - FValue(q))

\* print_progress lines 146-156: tdiff is the double time_diff returns,
\* mib = (double)mbytes / tdiff, and the ETA is
\* device_size / 1024 / 1024 / mib - tdiff, here in units of 2^-MaxExp seconds
\* with the sign of tdiff carried through both divisions.
Eta(device_size, mbytes, tdiff) ==
    LET t == FRound(Abs(tdiff), 1000000)
        mib == FDiv(mbytes, t)
        q == FDiv((device_size \div 1024) \div 1024, mib)
    IN  (IF tdiff < 0 THEN 0 - 1 ELSE 1) * (FValue(q) - FValue(t))

\* print_progress lines 134-171 for the clock reading now.
print_progress(st, et, device_size, bytes, final, now) ==
    IF st = 0
    THEN Report(now, now, "none", 0, 0, 0, 0)
    ELSE IF Throttled(st, et, final, now)
    THEN Report(st, et, "none", 0, 0, 0, 0)
    ELSE LET tdiff == time_diff(st, now)
             mbytes == (bytes \div 1024) \div 1024
         IN  IF ZeroElapsed(tdiff)
             THEN Report(st, now, "none", 0, tdiff, 0, 0)
             ELSE IF ZeroThroughput(mbytes, tdiff)
             THEN Report(st, now, "none", 1, tdiff, mbytes, 0)
             ELSE Report(st, now, IF final THEN "Finished" ELSE "Progress", 2,
                         tdiff, mbytes, Eta(device_size, mbytes, tdiff))

\* A call of print_progress from rw_sectors: reads the clock (line 134), which
\* has advanced by the time the device took, updates the statics, prints.
ProgressCall(final, lines) ==
        LET now == clock + io_ticks * TickUsec
            r == print_progress(start_time, end_time, dev_size_sec * SECTOR_SIZE,
                                offset_sec' * SECTOR_SIZE, final, now)
        IN  /\ clock' = now
            /\ now_time' = now
            /\ start_time' = r.start_time
            /\ end_time' = r.end_time
            /\ calls' = Append(calls, [bytes |-> offset_sec' * SECTOR_SIZE,
                                       final |-> final, line |-> r.line,
                                       at |-> Len(io), now |-> now,
                                       first |-> (start_time = 0),
                                       divs |-> r.divs, tdiff |-> r.tdiff,
                                       mbytes |-> r.mbytes, eta |-> r.eta])
            /\ out' = IF r.line = "none" THEN lines
                      ELSE Append(lines, Line(r.line, offset_sec', ENONE))

\* rw_sectors line 229: block_sectors * SECTOR_SIZE, computed in unsigned int
\* (modulo 2^32), in sectors: (b * 512) % 2^32 = 512 * (b % 2^23).
AllocArg(b) == b % UintWrapSectors

\* aligned_malloc lines 64-66: the unsigned product is converted to the int
\* size (negative from 2^31 on) and then to the size_t posix_memalign takes,
\* where a negative size is more than any allocation can give.
AllocFits(b) == AllocArg(b) < IntMaxSectors

CanFail == faults < MaxFaults

\* The sector counts a short bulk transfer of n sectors may return: nothing,
\* or everything but the last sector.
ShortCounts(n) == {0, n - 1}

\* -------------------------------------------------------------- Init
Init ==
    /\ dc \in dev_command
    /\ _randomize \in BOOLEAN
    /\ block_sectors \in 1 .. MaxBlock
    /\ dev_size_sec \in 0 .. MaxDev
    /\ offset_sec = 0
    /\ block_size_sec = 0
    /\ sector = 0
    /\ pc = "size"
    /\ ret = "none"
    /\ errno = ENONE
    /\ devfd = "none"
    /\ flags = "none"
    /\ filepos = 0
    /\ sf = [i \in Slots |-> "uninit"]
    /\ allocated = FALSE
    /\ disk = [s \in Sectors |-> "orig"]
    /\ start_time = 0
    /\ end_time = 0
    /\ now_time = 0
    /\ clock = T0
    /\ io_ticks = MaxTick
    /\ io = <<>>
    /\ out = <<>>
    /\ calls = <<>>
    /\ faults = 0

\* ------------------------------------------------------------ cmd_dev
\* lines 335, 338: device_size_sec returns 0 with the extent in dev_size_sec;
\* rw_sectors is called with offset 0.
DeviceSizeOk ==
    /\ pc = "size"
    /\ pc' = "malloc"
    /\ UNCHANGED <<cfgVars, progVars, offset_sec, block_size_sec, sector, ret,
                   errno, devfd, flags, filepos, sf, allocated, disk, io, out,
                   faults>>

\* lines 335-336: device_size_sec fails (stat, open or the size ioctl);
\* cmd_dev returns EXIT_FAILURE without calling rw_sectors.
DeviceSizeFail ==
    /\ pc = "size"
    /\ errno' = EOTHER
    /\ ret' = EXIT_FAILURE
    /\ pc' = "done"
    /\ UNCHANGED <<cfgVars, progVars, offset_sec, block_size_sec, sector,
                   devfd, flags, filepos, sf, allocated, disk, io, out, faults>>

\* ------------------------------------------------- rw_sectors: set-up
\* line 229: aligned_malloc succeeds, with a buffer of AllocArg(block_sectors)
\* sectors.
MallocOk ==
    /\ pc = "malloc"
    /\ AllocFits(block_sectors)
    /\ allocated' = TRUE
    /\ pc' = "open"
    /\ UNCHANGED <<cfgVars, progVars, offset_sec, block_size_sec, sector, ret,
                   errno, devfd, flags, filepos, sf, disk, io, out, faults>>

\* lines 230-231: aligned_malloc fails.
MallocFail ==
    /\ pc = "malloc"
    /\ ret' = EXIT_FAILURE
    /\ pc' = "done"
    /\ UNCHANGED <<cfgVars, progVars, offset_sec, block_size_sec, sector,
                   errno, devfd, flags, filepos, sf, allocated, disk, io, out,
                   faults>>

\* lines 233-238: open succeeds with the access mode of the command.
OpenOk ==
    /\ pc = "open"
    /\ flags' = OpenFlags(dc)
    /\ devfd' = "open"
    /\ filepos' = 0
    /\ io' = Append(io, Call("open", "main", 0, 0, 0, errno))
    /\ pc' = "loop"
    /\ UNCHANGED <<cfgVars, progVars, offset_sec, block_size_sec, sector, ret,
                   errno, sf, allocated, disk, out, faults>>

\* lines 238-242: open fails; the buffer is freed.
OpenFail ==
    /\ pc = "open"
    /\ flags' = OpenFlags(dc)
    /\ errno' = EOTHER
    /\ allocated' = FALSE
    /\ ret' = EXIT_FAILURE
    /\ pc' = "done"
    /\ UNCHANGED <<cfgVars, progVars, offset_sec, block_size_sec, sector,
                   devfd, filepos, sf, disk, io, out, faults>>

\* ---------------------------------------------- rw_sectors: chunk loop
\* lines 244-248: the loop condition holds; the chunk size is computed.
LoopEnter ==
    /\ pc = "loop"
    /\ offset_sec < dev_size_sec
    /\ block_size_sec' = ChunkSize(offset_sec, block_sectors, dev_size_sec)
    /\ pc' = "seek"
    /\ UNCHANGED <<cfgVars, progVars, offset_sec, sector, ret, errno, devfd,
                   flags, filepos, sf, allocated, disk, io, out, faults>>

\* line 244: the loop condition fails.
LoopExit ==
    /\ pc = "loop"
    /\ ~(offset_sec < dev_size_sec)
    /\ pc' = "fsync"
    /\ UNCHANGED <<cfgVars, progVars, offset_sec, block_size_sec, sector, ret,
                   errno, devfd, flags, filepos, sf, allocated, disk, io, out,
                   faults>>

\* line 250: lseek64 to the chunk succeeds.
SeekOk ==
    /\ pc = "seek"
    /\ filepos' = offset_sec
    /\ io' = Append(io, Call("lseek", "main", offset_sec, 0, 0, errno))
    /\ pc' = IF dc = DEV_FORMAT THEN "fill" ELSE "read"
    /\ UNCHANGED <<cfgVars, progVars, offset_sec, block_size_sec, sector, ret,
                   errno, devfd, flags, sf, allocated, disk, out, faults>>

\* Mutant of SeekFail: the error is reported but the chunk is processed.
SeekFailNotFatal ==
    /\ pc = "seek"
    /\ CanFail
    /\ faults' = faults + 1
    /\ errno' = EOTHER
    /\ out' = Append(out, Line("Seek error", offset_sec, EOTHER))
    /\ io' = Append(io, Call("lseek", "main", offset_sec, 0, -1, EOTHER))
    /\ pc' = IF dc = DEV_FORMAT THEN "fill" ELSE "read"
    /\ UNCHANGED <<cfgVars, progVars, offset_sec, block_size_sec, sector, ret,
                   devfd, flags, filepos, sf, allocated, disk>>

\* Mutant of SeekFail: the abort returns without closing the device.
SeekFailNoClose ==
    /\ pc = "seek"
    /\ CanFail
    /\ faults' = faults + 1
    /\ errno' = EOTHER
    /\ out' = Append(out, Line("Seek error", offset_sec, EOTHER))
    /\ io' = Append(io, Call("lseek", "main", offset_sec, 0, -1, EOTHER))
    /\ allocated' = FALSE
    /\ ret' = EXIT_FAILURE
    /\ pc' = "done"
    /\ UNCHANGED <<cfgVars, progVars, offset_sec, block_size_sec, sector,
                   devfd, flags, filepos, sf, disk>>

\* lines 250-255: lseek64 fails; report, close, free, return EXIT_FAILURE.
SeekFail ==
    /\ pc = "seek"
    /\ CanFail
    /\ faults' = faults + 1
    /\ errno' = EOTHER
    /\ out' = Append(out, Line("Seek error", offset_sec, EOTHER))
    /\ io' = io \o <<Call("lseek", "main", offset_sec, 0, -1, EOTHER),
                     Call("close", "main", 0, 0, 0, EOTHER)>>
    /\ devfd' = "closed"
    /\ allocated' = FALSE
    /\ ret' = EXIT_FAILURE
    /\ pc' = "done"
    /\ UNCHANGED <<cfgVars, progVars, offset_sec, block_size_sec, sector,
                   flags, filepos, sf, disk>>

\* lines 257-260: Format fills the chunk buffer sector by sector.
FormatFill ==
    /\ pc = "fill"
    /\ sf' = FillBuffer(sf, block_size_sec, _randomize)
    /\ pc' = "write"
    /\ UNCHANGED <<cfgVars, progVars, offset_sec, block_size_sec, sector, ret,
                   errno, devfd, flags, filepos, allocated, disk, io, out,
                   faults>>

\* lines 262-263: the bulk write transfers the whole chunk.
BulkWriteFull ==
    /\ pc = "write"
    /\ disk' = WriteFrom(disk, sf, filepos, block_size_sec)
    /\ filepos' = filepos + block_size_sec
    /\ io' = Append(io, Call("write", "main", filepos, block_size_sec,
                             block_size_sec, errno))
    /\ pc' = "advance"
    /\ UNCHANGED <<cfgVars, progVars, offset_sec, block_size_sec, sector, ret,
                   errno, devfd, flags, sf, allocated, out, faults>>

\* lines 262-264: the bulk write is short (k sectors) or fails (k = -1).
BulkWriteFail ==
    /\ pc = "write"
    /\ CanFail
    /\ faults' = faults + 1
    /\ \E k \in {-1} \cup ShortCounts(block_size_sec) :
       \E e \in IF k = -1 THEN {EIO} ELSE {errno} :
          /\ errno' = e
          /\ disk' = WriteFrom(disk, sf, filepos, IF k < 0 THEN 0 ELSE k)
          /\ filepos' = filepos + (IF k < 0 THEN 0 ELSE k)
          /\ io' = Append(io, Call("write", "main", filepos, block_size_sec, k, e))
    /\ out' = Append(out, Line("Write error", offset_sec, ENONE))
    /\ pc' = "advance"
    /\ UNCHANGED <<cfgVars, progVars, offset_sec, block_size_sec, sector, ret,
                   devfd, flags, sf, allocated>>

\* lines 266-267: the bulk read returns the whole chunk.
BulkReadFull ==
    /\ pc = "read"
    /\ sf' = ReadInto(sf, disk, filepos, block_size_sec)
    /\ filepos' = filepos + block_size_sec
    /\ io' = Append(io, Call("read", "main", filepos, block_size_sec,
                             block_size_sec, errno))
    /\ pc' = "advance"
    /\ UNCHANGED <<cfgVars, progVars, offset_sec, block_size_sec, sector, ret,
                   errno, devfd, flags, allocated, disk, out, faults>>

\* lines 266-268: the bulk read is short (k sectors) or fails (k = -1);
\* check_one_by_one is entered (lines 180-182).
BulkReadFail ==
    /\ pc = "read"
    /\ CanFail
    /\ faults' = faults + 1
    /\ \E k \in {-1} \cup ShortCounts(block_size_sec) :
       \E e \in IF k = -1 THEN {EIO, EOTHER} ELSE {errno} :
          /\ errno' = e
          /\ sf' = ReadInto(sf, disk, filepos, IF k < 0 THEN 0 ELSE k)
          /\ filepos' = filepos + (IF k < 0 THEN 0 ELSE k)
          /\ io' = Append(io, Call("read", "main", filepos, block_size_sec, k, e))
    /\ sector' = offset_sec
    /\ pc' = "fb_loop"
    /\ UNCHANGED <<cfgVars, progVars, offset_sec, block_size_sec, ret, devfd,
                   flags, allocated, disk, out>>

\* ------------------------------------------------- check_one_by_one
\* line 182: the loop condition holds.
FbLoopEnter ==
    /\ pc = "fb_loop"
    /\ sector < (offset_sec + block_size_sec)
    /\ pc' = "fb_seek"
    /\ UNCHANGED <<cfgVars, progVars, offset_sec, block_size_sec, sector, ret,
                   errno, devfd, flags, filepos, sf, allocated, disk, io, out,
                   faults>>

\* lines 182, 217: the loop condition fails; check_one_by_one returns.
FbLoopExit ==
    /\ pc = "fb_loop"
    /\ ~(sector < (offset_sec + block_size_sec))
    /\ pc' = "advance"
    /\ UNCHANGED <<cfgVars, progVars, offset_sec, block_size_sec, sector, ret,
                   errno, devfd, flags, filepos, sf, allocated, disk, io, out,
                   faults>>

\* line 184: lseek64 to the sector succeeds.
FbSeekOk ==
    /\ pc = "fb_seek"
    /\ filepos' = sector
    /\ io' = Append(io, Call("lseek", "fb", sector, 0, 0, errno))
    /\ pc' = "fb_read"
    /\ UNCHANGED <<cfgVars, progVars, offset_sec, block_size_sec, sector, ret,
                   errno, devfd, flags, sf, allocated, disk, out, faults>>

\* Mutant of FbSeekFail: the failure aborts the operation as in the chunk loop.
FbSeekFailAbort ==
    /\ pc = "fb_seek"
    /\ CanFail
    /\ faults' = faults + 1
    /\ errno' = EOTHER
    /\ io' = io \o <<Call("lseek", "fb", sector, 0, -1, EOTHER),
                     Call("close", "main", 0, 0, 0, EOTHER)>>
    /\ out' = Append(out, Line("Seek error", sector, EOTHER))
    /\ devfd' = "closed"
    /\ allocated' = FALSE
    /\ ret' = EXIT_FAILURE
    /\ pc' = "done"
    /\ UNCHANGED <<cfgVars, progVars, offset_sec, block_size_sec, sector,
                   flags, filepos, sf, disk>>

\* lines 184-187: lseek64 fails; report and return from check_one_by_one.
FbSeekFail ==
    /\ pc = "fb_seek"
    /\ CanFail
    /\ faults' = faults + 1
    /\ errno' = EOTHER
    /\ io' = Append(io, Call("lseek", "fb", sector, 0, -1, EOTHER))
    /\ out' = Append(out, Line("Seek error", sector, EOTHER))
    /\ pc' = "advance"
    /\ UNCHANGED <<cfgVars, progVars, offset_sec, block_size_sec, sector, ret,
                   devfd, flags, filepos, sf, allocated, disk>>

\* lines 189-191: the one-sector read returns the full sector; continue.
FbReadFull ==
    /\ pc = "fb_read"
    /\ sf' = ReadInto(sf, disk, filepos, 1)
    /\ filepos' = filepos + 1
    /\ io' = Append(io, Call("read", "fb", filepos, 1, 1, errno))
    /\ sector' = sector + 1
    /\ pc' = "fb_loop"
    /\ UNCHANGED <<cfgVars, progVars, offset_sec, block_size_sec, ret, errno,
                   devfd, flags, allocated, disk, out, faults>>

\* lines 189-204: the one-sector read returns no data (k = 0, errno untouched)
\* or fails (k = -1, errno set); the sector is classified by errno.
FbReadFail ==
    /\ pc = "fb_read"
    /\ CanFail
    /\ faults' = faults + 1
    /\ \E k \in {-1, 0} :
       \E e \in IF k = -1 THEN {EIO, EILSEQ, EOTHER} ELSE {errno} :
          /\ errno' = e
          /\ io' = Append(io, Call("read", "fb", filepos, 1, k, e))
          /\ IF ~IsMediaError(e)
             THEN \* lines 193-196: report and return
                  /\ out' = Append(out, Line("Error sector", sector, e))
                  /\ pc' = "advance"
                  /\ UNCHANGED <<sector, sf>>
             ELSE IF ~RewriteBadSector(dc)
             THEN \* lines 198-201: report and continue
                  /\ out' = Append(out, Line("IO error sector", sector, ENONE))
                  /\ sector' = sector + 1
                  /\ pc' = "fb_loop"
                  /\ UNCHANGED sf
             ELSE \* line 204: init_sector(sf)
                  /\ sf' = [sf EXCEPT ![0] = init_sector(_randomize)]
                  /\ pc' = "fb_wseek"
                  /\ UNCHANGED <<sector, out>>
    /\ UNCHANGED <<cfgVars, progVars, offset_sec, block_size_sec, ret, devfd,
                   flags, filepos, allocated, disk>>

\* Mutant of FbWSeekOk: the seek back targets the following sector.
FbWSeekOkNextSector ==
    /\ pc = "fb_wseek"
    /\ filepos' = sector + 1
    /\ io' = Append(io, Call("lseek", "fix", sector + 1, 0, 0, errno))
    /\ pc' = "fb_write"
    /\ UNCHANGED <<cfgVars, progVars, offset_sec, block_size_sec, sector, ret,
                   errno, devfd, flags, sf, allocated, disk, out, faults>>

\* line 206: lseek64 back to the sector succeeds.
FbWSeekOk ==
    /\ pc = "fb_wseek"
    /\ filepos' = sector
    /\ io' = Append(io, Call("lseek", "fix", sector, 0, 0, errno))
    /\ pc' = "fb_write"
    /\ UNCHANGED <<cfgVars, progVars, offset_sec, block_size_sec, sector, ret,
                   errno, devfd, flags, sf, allocated, disk, out, faults>>

\* lines 206-209: lseek64 back fails; report and continue.
FbWSeekFail ==
    /\ pc = "fb_wseek"
    /\ CanFail
    /\ faults' = faults + 1
    /\ errno' = EOTHER
    /\ io' = Append(io, Call("lseek", "fix", sector, 0, -1, EOTHER))
    /\ out' = Append(out, Line("Seek error", sector, EOTHER))
    /\ sector' = sector + 1
    /\ pc' = "fb_loop"
    /\ UNCHANGED <<cfgVars, progVars, offset_sec, block_size_sec, ret, devfd,
                   flags, filepos, sf, allocated, disk>>

\* lines 211-215: the one-sector write transfers the full sector.
FbWriteFull ==
    /\ pc = "fb_write"
    /\ disk' = WriteFrom(disk, sf, filepos, 1)
    /\ filepos' = filepos + 1
    /\ io' = Append(io, Call("write", "fix", filepos, 1, 1, errno))
    /\ out' = Append(out, Line("Bad sector wiped", sector, ENONE))
    /\ sector' = sector + 1
    /\ pc' = "fb_loop"
    /\ UNCHANGED <<cfgVars, progVars, offset_sec, block_size_sec, ret, errno,
                   devfd, flags, sf, allocated, faults>>

\* Mutant of FbWriteFail: the test of line 212 is inverted, a failed write is
\* reported as a wipe.
FbWriteFailSaysWiped ==
    /\ pc = "fb_write"
    /\ CanFail
    /\ faults' = faults + 1
    /\ \E k \in {-1, 0} :
       \E e \in IF k = -1 THEN {EIO, EOTHER} ELSE {errno} :
          /\ errno' = e
          /\ io' = Append(io, Call("write", "fix", filepos, 1, k, e))
          /\ out' = Append(out, Line("Bad sector wiped", sector, ENONE))
    /\ sector' = sector + 1
    /\ pc' = "fb_loop"
    /\ UNCHANGED <<cfgVars, progVars, offset_sec, block_size_sec, ret, devfd,
                   flags, filepos, sf, allocated, disk>>

\* lines 211-213: the one-sector write transfers nothing (k = 0) or fails.
FbWriteFail ==
    /\ pc = "fb_write"
    /\ CanFail
    /\ faults' = faults + 1
    /\ \E k \in {-1, 0} :
       \E e \in IF k = -1 THEN {EIO, EOTHER} ELSE {errno} :
          /\ errno' = e
          /\ io' = Append(io, Call("write", "fix", filepos, 1, k, e))
          /\ out' = Append(out, Line("Error sector", sector, e))
    /\ sector' = sector + 1
    /\ pc' = "fb_loop"
    /\ UNCHANGED <<cfgVars, progVars, offset_sec, block_size_sec, ret, devfd,
                   flags, filepos, sf, allocated, disk>>

\* --------------------------------------------- rw_sectors: after a chunk
\* Mutant of Advance: the offset is advanced without a progress update.
AdvanceSilent ==
    /\ pc = "advance"
    /\ offset_sec' = offset_sec + block_size_sec
    /\ pc' = "loop"
    /\ UNCHANGED <<cfgVars, progVars, block_size_sec, sector, ret, errno, devfd,
                   flags, filepos, sf, allocated, disk, io, out, faults>>

\* lines 271-272: advance the offset and report progress.
Advance ==
    /\ pc = "advance"
    /\ offset_sec' = offset_sec + block_size_sec
    /\ ProgressCall(FALSE, out)
    /\ pc' = "loop"
    /\ UNCHANGED <<cfgVars, block_size_sec, sector, ret, errno, devfd, flags,
                   filepos, sf, allocated, disk, io, faults>>

\* line 275: fsync succeeds.
FsyncOk ==
    /\ pc = "fsync"
    /\ io' = Append(io, Call("fsync", "main", 0, 0, 0, errno))
    /\ pc' = "close"
    /\ UNCHANGED <<cfgVars, progVars, offset_sec, block_size_sec, sector, ret,
                   errno, devfd, flags, filepos, sf, allocated, disk, out,
                   faults>>

\* Mutant of FsyncFail: the failed flush ends the operation with a failure.
FsyncFailFatal ==
    /\ pc = "fsync"
    /\ CanFail
    /\ faults' = faults + 1
    /\ errno' = EIO
    /\ io' = io \o <<Call("fsync", "main", 0, 0, -1, EIO),
                     Call("close", "main", 0, 0, 0, EIO)>>
    /\ out' = Append(out, Line("FSYNC failed", 0, EIO))
    /\ devfd' = "closed"
    /\ allocated' = FALSE
    /\ ret' = EXIT_FAILURE
    /\ pc' = "done"
    /\ UNCHANGED <<cfgVars, progVars, offset_sec, block_size_sec, sector,
                   flags, filepos, sf, disk>>

\* lines 275-276: fsync fails; report only.
FsyncFail ==
    /\ pc = "fsync"
    /\ CanFail
    /\ faults' = faults + 1
    /\ \E e \in {EIO} :
          /\ errno' = e
          /\ io' = Append(io, Call("fsync", "main", 0, 0, -1, e))
          /\ out' = Append(out, Line("FSYNC failed", 0, e))
    /\ pc' = "close"
    /\ UNCHANGED <<cfgVars, progVars, offset_sec, block_size_sec, sector, ret,
                   devfd, flags, filepos, sf, allocated, disk>>

\* lines 278-279: close the device and free the buffer.
CloseDevice ==
    /\ pc = "close"
    /\ devfd' = "closed"
    /\ allocated' = FALSE
    /\ io' = Append(io, Call("close", "main", 0, 0, 0, errno))
    /\ pc' = "final"
    /\ UNCHANGED <<cfgVars, progVars, offset_sec, block_size_sec, sector, ret,
                   errno, flags, filepos, sf, disk, out, faults>>

\* lines 281-283: the final progress report; return 0.
FinalProgress ==
    /\ pc = "final"
    /\ offset_sec' = offset_sec
    /\ ProgressCall(TRUE, out)
    /\ ret' = 0
    /\ pc' = "done"
    /\ UNCHANGED <<cfgVars, block_size_sec, sector, errno, devfd, flags,
                   filepos, sf, allocated, disk, io, faults>>

Next ==
    \/ DeviceSizeOk \/ DeviceSizeFail
    \/ MallocOk \/ MallocFail \/ OpenOk \/ OpenFail
    \/ LoopEnter \/ LoopExit \/ SeekOk \/ SeekFail
    \/ FormatFill \/ BulkWriteFull \/ BulkWriteFail
    \/ BulkReadFull \/ BulkReadFail
    \/ FbLoopEnter \/ FbLoopExit \/ FbSeekOk \/ FbSeekFail
    \/ FbReadFull \/ FbReadFail
    \/ FbWSeekOk \/ FbWSeekFail \/ FbWriteFull \/ FbWriteFail
    \/ Advance \/ FsyncOk \/ FsyncFail \/ CloseDevice \/ FinalProgress

Spec == Init /\ [][Next]_vars

\* ---------------------------------------------- allocation specification
\* The same pass with chunk sizes --blocksize accepts (main lines 368-373:
\* every value of 1 .. 2^32 - 1) around the sizes at which the byte count of
\* line 229 leaves the range of int and of unsigned int.
BigBlocks ==
    {IntMaxSectors - 1, IntMaxSectors, UintWrapSectors - 1, UintWrapSectors,
     UintWrapSectors + 1, UintWrapSectors + 2}

AllocInit ==
    /\ dc \in dev_command
    /\ _randomize \in BOOLEAN
    /\ block_sectors \in BigBlocks
    /\ dev_size_sec \in 0 .. MaxDev
    /\ offset_sec = 0
    /\ block_size_sec = 0
    /\ sector = 0
    /\ pc = "size"
    /\ ret = "none"
    /\ errno = ENONE
    /\ devfd = "none"
    /\ flags = "none"
    /\ filepos = 0
    /\ sf = [i \in Slots |-> "uninit"]
    /\ allocated = FALSE
    /\ disk = [s \in Sectors |-> "orig"]
    /\ start_time = 0
    /\ end_time = 0
    /\ now_time = 0
    /\ clock = T0
    /\ io_ticks = MaxTick
    /\ io = <<>>
    /\ out = <<>>
    /\ calls = <<>>
    /\ faults = 0

\* lines 259-266 with a chunk larger than the buffer: init_sector and the
\* bulk read store beyond the end of the allocation. What the program does
\* from there on is undefined; besides going on as if the buffer had held the
\* chunk it may stop here.
BufferOverrun ==
    /\ pc \in {"fill", "read"}
    /\ block_size_sec > AllocArg(block_sectors)
    /\ pc' = "undefined"
    /\ UNCHANGED <<cfgVars, progVars, offset_sec, block_size_sec, sector, ret,
                   errno, devfd, flags, filepos, sf, allocated, disk, io, out,
                   faults>>

AllocNext == Next \/ BufferOverrun

AllocSpec == AllocInit /\ [][AllocNext]_vars

\* ------------------------------------------------ progress specification
\* The same pass over devices of whole MiB, every call on the device
\* succeeding, to exercise print_progress with byte counts it can report.
\* gettimeofday reads the wall clock: between two calls it may advance, stand
\* still, or be stepped back.
ClockSteps == (0 - 1) .. MaxProgTick

ProgInit ==
    /\ dc = DEV_CHECK
    /\ _randomize = FALSE
    /\ block_sectors \in {b * ProgUnit : b \in 1 .. MaxProgBlock}
    /\ dev_size_sec \in {d * ProgUnit : d \in 0 .. MaxProgDev}
    /\ offset_sec = 0
    /\ block_size_sec = 0
    /\ sector = 0
    /\ pc = "size"
    /\ ret = "none"
    /\ errno = ENONE
    /\ devfd = "none"
    /\ flags = "none"
    /\ filepos = 0
    /\ sf = [i \in Slots |-> "uninit"]
    /\ allocated = FALSE
    /\ disk = [s \in Sectors |-> "orig"]
    /\ start_time = 0
    /\ end_time = 0
    /\ now_time = 0
    /\ clock = T0
    /\ io_ticks = 0
    /\ io = <<>>
    /\ out = <<>>
    /\ calls = <<>>
    /\ faults = 0

\* lines 250-269 with the seek and the bulk read returning in full: the
\* chunk's I/O, over which the wall clock moves by dt ticks. The contents
\* transferred are not tracked.
ChunkIoOk ==
    /\ pc = "seek"
    /\ \E dt \in ClockSteps : io_ticks' = dt
    /\ filepos' = offset_sec + block_size_sec
    /\ io' = io \o <<Call("lseek", "main", offset_sec, 0, 0, errno),
                     Call("read", "main", offset_sec, block_size_sec,
                          block_size_sec, errno)>>
    /\ pc' = "advance"
    /\ UNCHANGED <<dc, _randomize, block_sectors, dev_size_sec, progVars,
                   offset_sec, block_size_sec, sector, ret, errno, devfd,
                   flags, sf, allocated, disk, out, faults>>

ProgNext ==
    \/ DeviceSizeOk \/ MallocOk \/ OpenOk
    \/ LoopEnter \/ ChunkIoOk \/ Advance \/ LoopExit
    \/ FsyncOk \/ CloseDevice \/ FinalProgress

ProgSpec == ProgInit /\ [][ProgNext]_vars

\* ================================================================ claims
\* ------------------------------------------------------- observations
Min(a, b) == IF a < b THEN a ELSE b

\* The bulk transfers of the chunk loop, in order: one per processed chunk.
IsChunkIO(c) == c.ctx = "main" /\ (c.op = "read" \/ c.op = "write")
Chunks == SelectSeq(io, IsChunkIO)

IsWrite(c) == c.op = "write"
Writes == SelectSeq(io, IsWrite)

\* The call covers sector s with its request.
Covers(c, s) == c.pos <= s /\ s < c.pos + c.len

\* A seek of the chunk loop has failed.
FatalSeek ==
    \E i \in DOMAIN io : io[i].op = "lseek" /\ io[i].ctx = "main" /\ io[i].ret = -1

\* The operation has returned after opening the device, with no fatal seek.
Completed == pc = "done" /\ devfd = "closed" /\ ~FatalSeek

RECURSIVE SumLen(_)
SumLen(seq) == IF seq = <<>> THEN 0 ELSE Head(seq).len + SumLen(Tail(seq))

DeviceSectors == 0 .. (dev_size_sec - 1)

\* The contents the fill policy gives a sector.
Fill == IF _randomize THEN "random" ELSE "zero"

\* ------------------------------------------------------------------ C1
\* C1: a scan from offset 0 processes consecutive chunks [o, o+min(C, E-o)):
\* no chunk is empty, only the last may be shorter than C, and on a pass with
\* no fatal seek failure the chunk sizes sum to E and every sector of [0, E)
\* lies in exactly one chunk.
C1_ChunksTileDevice ==
    LET ch == Chunks
    IN  /\ \A i \in DOMAIN ch :
              /\ ch[i].pos = (IF i = 1 THEN 0 ELSE ch[i - 1].pos + ch[i - 1].len)
              /\ ch[i].len = Min(block_sectors, dev_size_sec - ch[i].pos)
              /\ ch[i].len > 0
              /\ (ch[i].len < block_sectors => ch[i].pos + ch[i].len = dev_size_sec)
        /\ (Completed =>
              /\ SumLen(ch) = dev_size_sec
              /\ \A s \in DeviceSectors :
                    Cardinality({i \in DOMAIN ch : Covers(ch[i], s)}) = 1)

\* A completed pass of several chunks whose last chunk is the remainder.
C1_Witness ==
    /\ Completed
    /\ Len(Chunks) >= 2
    /\ Chunks[Len(Chunks)].len < block_sectors
    /\ Chunks[1].len = block_sectors

\* ------------------------------------------------------------------ C2
\* C2: in Check mode no write is ever issued on the device, whatever seeks
\* and reads fail, and the device contents stay as they were.
C2_CheckNeverWrites ==
    dc = DEV_CHECK =>
        /\ \A i \in DOMAIN io : io[i].op # "write"
        /\ \A s \in Sectors : disk[s] = "orig"

\* A Check pass that met an expected media error in the per-sector fallback.
C2_Witness ==
    /\ dc = DEV_CHECK
    /\ pc = "done"
    /\ \E i \in DOMAIN io :
          /\ io[i].op = "read" /\ io[i].ctx = "fb"
          /\ io[i].ret = -1 /\ io[i].errno \in {EIO, EILSEQ}
    /\ \E j \in DOMAIN out : out[j].msg = "IO error sector"

C4_FormatWritesEverySectorOnce ==
    dc = DEV_FORMAT =>
        /\ (pc = "write" => \A i \in 0 .. (block_size_sec - 1) : sf[i] = Fill)
        /\ \A i \in DOMAIN io :
              io[i].op = "write" =>
                 /\ io[i].ctx = "main"
                 /\ io[i].len = Min(block_sectors, dev_size_sec - io[i].pos)
        /\ \A s \in Sectors : disk[s] \in {"orig", Fill}
        /\ (~_randomize => \A s \in Sectors : disk[s] \in {"orig", "zero"})
        /\ (Completed =>
              /\ \A s \in DeviceSectors :
                    Cardinality({i \in DOMAIN io :
                                    io[i].op = "write" /\ Covers(io[i], s)}) = 1
              /\ ((\A i \in DOMAIN io : io[i].op = "write" => io[i].ret = io[i].len)
                     => \A s \in DeviceSectors : disk[s] = Fill))

\* A completed zero-fill Format of several chunks, every sector zeroed.
C4_Witness ==
    /\ dc = DEV_FORMAT
    /\ ~_randomize
    /\ Completed
    /\ Len(Writes) >= 2
    /\ dev_size_sec = MaxDev
    /\ \A s \in DeviceSectors : disk[s] = "zero"

\* ----------------------------------------- the chunk being processed
\* The index in io of the chunk loop's latest seek.
IsMainSeek(i) == io[i].op = "lseek" /\ io[i].ctx = "main"
LastMainSeek ==
    CHOOSE i \in DOMAIN io : IsMainSeek(i) /\ \A j \in DOMAIN io : j > i => ~IsMainSeek(j)

\* The indices in io of the calls made for the current chunk after its seek.
CurCalls == LET k == LastMainSeek IN {j \in DOMAIN io : j > k}
CurChunk == offset_sec .. (offset_sec + block_size_sec - 1)

\* The current chunk has been processed and its bulk read did not return the
\* whole chunk, so check_one_by_one ran and has returned.
FallbackDone ==
    /\ pc = "advance"
    /\ dc # DEV_FORMAT
    /\ LET k == LastMainSeek IN io[k + 1].ret # io[k + 1].len

\* The per-sector notices printed for sector s.
NoticesFor(s) ==
    {j \in DOMAIN out : out[j].sector = s /\ out[j].msg \notin {"Progress", "Finished"}}

\* ------------------------------------------------------------------ C5
\* Among the calls cur every seek and write succeeded and every one-sector
\* read returned the full sector or failed with EIO or EILSEQ.
C5_PreAt(cur) ==
    \A j \in cur :
        /\ (io[j].op = "lseek" => io[j].ret = 0)
        /\ (io[j].op = "write" => io[j].ret = io[j].len)
        /\ ((io[j].op = "read" /\ io[j].ctx = "fb") =>
               \/ io[j].ret = 1
               \/ (io[j].ret = -1 /\ io[j].errno \in {EIO, EILSEQ}))

\* The sectors whose one-sector read, among the calls cur, failed.
C5_BadAt(cur) ==
    {io[j].pos : j \in {i \in cur : io[i].op = "read" /\ io[i].ctx = "fb"
                                        /\ io[i].ret = -1}}

C5_Pre == FallbackDone /\ C5_PreAt(CurCalls)
C5_Bad == C5_BadAt(CurCalls)

\* C5: when a chunk's bulk read fails and exactly the sectors of B fail their
\* one-sector read with EIO or EILSEQ (all other sectors read in full, all
\* seeks and writes succeed): every sector of the chunk is read once; Check
\* prints one bad-sector notice for each sector of B, nothing else, and
\* changes no sector; Fix prints one wiped notice for each sector of B,
\* nothing else, writes one sector at each sector of B and nowhere else, and
\* leaves every other sector of the chunk unchanged.
C5_FallbackReportsExactlyBadSectors ==
    FallbackDone =>
        LET cur == CurCalls
            bad == C5_BadAt(cur)
        IN  C5_PreAt(cur) =>
              /\ \A s \in CurChunk :
                    LET notices == NoticesFor(s)
                    IN  /\ Cardinality({j \in cur : io[j].op = "read"
                                           /\ io[j].ctx = "fb" /\ io[j].pos = s}) = 1
                        /\ Cardinality(notices) = (IF s \in bad THEN 1 ELSE 0)
                        /\ \A j \in notices :
                              out[j].msg = (IF dc = DEV_FIX THEN "Bad sector wiped"
                                            ELSE "IO error sector")
                        /\ Cardinality({j \in cur : io[j].op = "write"
                                           /\ io[j].pos = s /\ io[j].len = 1})
                              = (IF dc = DEV_FIX /\ s \in bad THEN 1 ELSE 0)
                        /\ disk[s] = (IF dc = DEV_FIX /\ s \in bad THEN Fill ELSE "orig")
              /\ \A j \in cur : io[j].op = "write" => io[j].pos \in bad
              /\ (dc = DEV_CHECK => \A s \in Sectors : disk[s] = "orig")

\* A Fix fallback over a chunk with a wiped sector and an untouched sector.
C5_Witness ==
    /\ C5_Pre
    /\ dc = DEV_FIX
    /\ C5_Bad # {}
    /\ CurChunk \ C5_Bad # {}
    /\ \E s \in CurChunk \ C5_Bad : s > 0 /\ (s - 1) \in C5_Bad

\* ------------------------------------------------------------------ C6
\* C6: once a seek of the chunk loop has failed the operation is over: the
\* failure is the last line printed, the only call after the failed seek is
\* the close, the offset has not advanced, no progress call follows, and the
\* status returned is EXIT_FAILURE.
C6_MainSeekFailureIsFatal ==
    \A i \in DOMAIN io :
        (IsMainSeek(i) /\ io[i].ret = -1) =>
            /\ pc = "done"
            /\ ret = EXIT_FAILURE
            /\ ret # 0
            /\ i = Len(io) - 1
            /\ io[Len(io)].op = "close"
            /\ devfd = "closed"
            /\ out # <<>>
            /\ out[Len(out)].msg = "Seek error"
            /\ out[Len(out)].sector = io[i].pos
            /\ offset_sec = io[i].pos
            /\ \A j \in DOMAIN calls : calls[j].at < i /\ ~calls[j].final

\* A seek failure at a later chunk, with chunks still left on the device.
C6_Witness ==
    /\ pc = "done"
    /\ ret = EXIT_FAILURE
    /\ FatalSeek
    /\ offset_sec > 0
    /\ offset_sec + block_size_sec < dev_size_sec

\* ------------------------------------------------------------------ C7
BodyPcs == {"fill", "write", "read", "fb_loop", "fb_seek", "fb_read",
            "fb_wseek", "fb_write"}

\* A call that did not do all it was asked to.
FailedCall(c) ==
    \/ c.ret = -1
    \/ ((c.op = "read" \/ c.op = "write") /\ c.ret # c.len)

\* C7: whatever happens while a chunk is processed after its seek (a short
\* or failed bulk write, a failed bulk read with any outcome of the fallback),
\* control leaves the chunk only to the offset update, the offset then
\* advances by the chunk's size, the loop goes on to the next chunk while one
\* is left, and a pass with no fatal seek ends with status 0 and every sector
\* of the device in a processed chunk.
C7_NonFatalFailuresContinue ==
    /\ [][/\ ((pc \in BodyPcs /\ pc' \notin BodyPcs) =>
                 /\ pc' = "advance"
                 /\ offset_sec' = offset_sec
                 /\ block_size_sec' = block_size_sec)
          /\ (pc = "advance" =>
                 /\ offset_sec' = offset_sec + block_size_sec
                 /\ pc' = "loop")
          /\ ((pc = "loop" /\ offset_sec < dev_size_sec) => pc' = "seek")]_vars
    /\ [](Completed =>
             /\ ret = 0
             /\ offset_sec = dev_size_sec
             /\ \A s \in DeviceSectors : \E i \in DOMAIN Chunks : Covers(Chunks[i], s))

\* A completed pass whose first chunk met a failure in the fallback and that
\* went on to process a later chunk.
C7_Witness ==
    /\ Completed
    /\ ret = 0
    /\ Len(Chunks) >= 2
    /\ Chunks[1].ret # Chunks[1].len
    /\ \E i \in DOMAIN io :
          /\ io[i].ctx = "fb" /\ FailedCall(io[i])
          /\ \E j \in DOMAIN io : j > i /\ IsChunkIO(io[j])

\* ------------------------------------------------------------------ C8
\* C8: a seek failure in the per-sector fallback is local to its sector: it
\* is reported for that sector and every later sector of the chunk is still
\* seeked.
C8_FallbackSeekFailureIsLocal ==
    FallbackDone =>
        LET cur == CurCalls
        IN  \A j \in cur :
            (io[j].op = "lseek" /\ io[j].ctx = "fb" /\ io[j].ret = -1) =>
                /\ \E n \in NoticesFor(io[j].pos) : out[n].msg = "Seek error"
                /\ \A t \in CurChunk :
                      t > io[j].pos =>
                         \E m \in cur :
                            /\ m > j
                            /\ io[m].op = "lseek" /\ io[m].ctx = "fb"
                            /\ io[m].pos = t

\* ------------------------------------------------------------------ C9
\* C9: a one-sector read that fails with an errno other than EIO and EILSEQ
\* is reported for its sector, the sector is not rewritten, and every later
\* sector of the chunk is still seeked.
C9_UnexpectedErrorContinues ==
    FallbackDone =>
        LET cur == CurCalls
        IN  \A j \in cur :
            (io[j].op = "read" /\ io[j].ctx = "fb" /\ io[j].ret = -1
               /\ io[j].errno \notin {EIO, EILSEQ}) =>
                /\ \E n \in NoticesFor(io[j].pos) : out[n].msg = "Error sector"
                /\ \A m \in cur : ~(io[m].op = "write" /\ Covers(io[m], io[j].pos))
                /\ \A t \in CurChunk :
                      t > io[j].pos =>
                         \E m \in cur :
                            /\ m > j
                            /\ io[m].op = "lseek" /\ io[m].ctx = "fb"
                            /\ io[m].pos = t

\* The part of C9 the code keeps: the error is reported and the sector is
\* never rewritten.
C9_UnexpectedErrorNeverRewritten ==
    \A j \in DOMAIN io :
        (io[j].op = "read" /\ io[j].ctx = "fb" /\ io[j].ret = -1
           /\ io[j].errno \notin {EIO, EILSEQ}) =>
            /\ \E n \in NoticesFor(io[j].pos) : out[n].msg = "Error sector"
            /\ \A m \in DOMAIN io : ~(io[m].op = "write" /\ Covers(io[m], io[j].pos))

\* ----------------------------------------------------------------- C10
\* C10: an operation that returns 0 has called the progress reporter exactly
\* once with the final flag, as its last call, and that call printed the
\* summary line.
C10_FinalReportAlwaysPrinted ==
    (pc = "done" /\ ret = 0) =>
        /\ Cardinality({j \in DOMAIN calls : calls[j].final}) = 1
        /\ calls[Len(calls)].final
        /\ calls[Len(calls)].at = Len(io)
        /\ calls[Len(calls)].line = "Finished"

\* The part of C10 the code keeps: one final call, after every other call.
C10_OneFinalCall ==
    (pc = "done" /\ ret = 0) =>
        /\ Cardinality({j \in DOMAIN calls : calls[j].final}) = 1
        /\ calls[Len(calls)].final
        /\ calls[Len(calls)].at = Len(io)

\* ----------------------------------------------------------------- C11
\* C11: the first call of print_progress only records the start time and
\* prints nothing; a non-final call prints a report only when the clock reads
\* at least 0.5 s more than at every report emitted before it, so no two
\* non-final reports are less than 0.5 s apart.
C11_ReportsAreThrottled ==
    /\ \A i \in DOMAIN calls :
          /\ (calls[i].first <=> i = 1)
          /\ (calls[i].first =>
                 /\ calls[i].line = "none"
                 /\ calls[i].divs = 0
                 /\ start_time = calls[i].now)
    /\ \A i \in DOMAIN calls :
          calls[i].line = "Progress" =>
             \A j \in 1 .. (i - 1) :
                calls[j].line # "none" =>
                   2 * (calls[i].now - calls[j].now) >= 1000000

\* Two progress reports with a call between them that the throttle suppressed.
C11_Witness ==
    \E i, j, k \in DOMAIN calls :
       /\ i < j /\ j < k
       /\ calls[i].line = "Progress"
       /\ calls[k].line = "Progress"
       /\ ~calls[j].final /\ calls[j].line = "none" /\ calls[j].mbytes = 0
       /\ calls[j].tdiff = 0 /\ calls[j].now > calls[i].now

\* ----------------------------------------------------------------- C12
\* C12: on every call of print_progress, final or not, the division by the
\* elapsed time (line 151) is executed only with a non-zero elapsed time, the
\* division by the throughput (line 156) only with a non-zero throughput, and
\* a report is printed only after both; a call whose throughput is zero
\* prints nothing.
C12_NoDivisionByZero ==
    \A i \in DOMAIN calls :
       /\ (calls[i].divs >= 1 => calls[i].tdiff # 0)
       /\ (calls[i].divs = 2 => calls[i].mbytes # 0)
       /\ (calls[i].line # "none" => calls[i].divs = 2)
       /\ ((calls[i].divs >= 1 /\ calls[i].mbytes = 0) => calls[i].line = "none")

\* A final call that computed a zero throughput over a non-zero elapsed time
\* and printed nothing.
C12_Witness ==
    \E i \in DOMAIN calls :
       /\ calls[i].final /\ ~calls[i].first
       /\ calls[i].divs = 1 /\ calls[i].tdiff # 0 /\ calls[i].mbytes = 0
       /\ calls[i].line = "none"

\* ----------------------------------------------------------------- C13
\* The device was never opened: device_size_sec, aligned_malloc or open failed.
NeverOpened == devfd = "none"

\* The chunk loop ran to its end: the flush was issued.
ReachedLoopEnd == \E i \in DOMAIN io : io[i].op = "fsync"

\* C13: the status returned is EXIT_FAILURE (non-zero) exactly when the
\* device size could not be determined, the buffer or the device could not
\* be obtained, or a seek of the chunk loop failed; every pass that reaches
\* the end of the chunk loop returns 0, whatever bad sectors, unexpected
\* sector errors, failed rewrites, short Format writes or flush failure it met.
C13_StatusFailsOnlyOnFatal ==
    IF pc = "done"
    THEN /\ ret \in {0, EXIT_FAILURE}
         /\ EXIT_FAILURE # 0
         /\ (ret = EXIT_FAILURE <=> (NeverOpened \/ FatalSeek))
         /\ (ret = 0 <=> ReachedLoopEnd)
    ELSE ret = "none"

\* A pass that returned 0 after an unexpected sector error in the fallback and
\* a failed flush.
C13_Witness ==
    /\ pc = "done"
    /\ ret = 0
    /\ \E i \in DOMAIN out : out[i].msg = "Error sector"
    /\ \E i \in DOMAIN out : out[i].msg = "FSYNC failed"
    /\ \E i \in DOMAIN io : io[i].op = "fsync" /\ io[i].ret = -1

\* ----------------------------------------------------------------- C14
\* C14: the device, once opened, is closed exactly once on every path on
\* which rw_sectors returns (normal completion and fatal-seek abort), the
\* close is the last call issued on it, and on normal completion the last
\* events are, in order: the last chunk's I/O, the flush, the close, the final
\* call of print_progress.
C14_ClosedExactlyOnce ==
    LET closes == {i \in DOMAIN io : io[i].op = "close"}
    IN  /\ Cardinality(closes) <= 1
        /\ \A i \in closes : i = Len(io) /\ i > 1 /\ io[1].op = "open"
        /\ (devfd = "closed" <=> closes # {})
        /\ ((pc = "done" /\ ~NeverOpened) => Cardinality(closes) = 1)
        /\ (pc = "done" =>
              IF ret = 0
              THEN /\ Len(io) >= 3
                   /\ io[Len(io)].op = "close"
                   /\ io[Len(io) - 1].op = "fsync"
                   /\ io[Len(io) - 2].op \in {"open", "read", "write", "lseek"}
                   /\ calls # <<>>
                   /\ calls[Len(calls)].final
                   /\ calls[Len(calls)].at = Len(io)
                   /\ \A j \in 1 .. (Len(calls) - 1) :
                         ~calls[j].final /\ calls[j].at <= Len(io) - 2
              ELSE \A j \in DOMAIN io : io[j].op # "fsync")

\* A normal completion whose last chunk ended with a rewrite in the
\* fallback, after which the flush failed.
C14_Witness ==
    /\ pc = "done"
    /\ ret = 0
    /\ Len(io) >= 3
    /\ io[Len(io) - 2].op = "write" /\ io[Len(io) - 2].ctx = "fix"
    /\ io[Len(io) - 1].ret = -1

\* ----------------------------------------------------------------- C15
\* The one-sector read at index j of the call log was classified as an
\* expected media error.
MediaErrorRead(j) ==
    /\ io[j].op = "read" /\ io[j].ctx = "fb"
    /\ io[j].ret # 1
    /\ io[j].errno \in {EIO, EILSEQ}

\* The notices check_one_by_one has printed for sector s.
SectorNotices(s) ==
    {t \in DOMAIN out :
        /\ out[t].sector = s
        /\ out[t].msg \in {"Seek error", "Error sector", "IO error sector",
                           "Bad sector wiped"}}

\* The end of the chunk whose fallback issued the call at index j.
ChunkEndAt(j) ==
    LET c == CHOOSE k \in 1 .. j :
                 /\ IsChunkIO(io[k])
                 /\ \A m \in (k + 1) .. j : ~IsChunkIO(io[m])
    IN  io[c].pos + io[c].len

\* C15: in Fix mode a sector whose one-sector read was classified as an
\* expected media error is next seeked again, at the same sector; after a
\* successful seek back exactly one sector is written there. Once the sector
\* is dealt with exactly one notice has been printed for it: "wiped" if and
\* only if the write returned the full sector, the error notice if the write
\* did not, the seek notice if the seek back failed; and in all three cases
\* the next call issued is the seek to the next sector of the chunk, or, at
\* the end of the chunk, a call of the chunk loop.
C15_RewriteNoticeAndContinue ==
    dc = DEV_FIX =>
        \A j \in DOMAIN io :
            MediaErrorRead(j) =>
                LET s == io[j].pos
                    n == Len(io)
                    busy == sector = s /\ pc \in {"fb_wseek", "fb_write"}
                    last == IF j + 1 <= n /\ io[j + 1].ret = 0 THEN j + 2 ELSE j + 1
                IN  /\ (busy <=> last > n)
                    /\ (j + 1 <= n =>
                           /\ io[j + 1].op = "lseek" /\ io[j + 1].ctx = "fix"
                           /\ io[j + 1].pos = s)
                    /\ ((j + 2 <= n /\ io[j + 1].ret = 0) =>
                           /\ io[j + 2].op = "write" /\ io[j + 2].ctx = "fix"
                           /\ io[j + 2].pos = s /\ io[j + 2].len = 1)
                    /\ (busy => SectorNotices(s) = {})
                    /\ (~busy =>
                           /\ Cardinality(SectorNotices(s)) = 1
                           /\ \A t \in SectorNotices(s) :
                                 out[t].msg =
                                    (IF io[j + 1].ret # 0 THEN "Seek error"
                                     ELSE IF io[j + 2].ret = 1 THEN "Bad sector wiped"
                                     ELSE "Error sector")
                           /\ Cardinality({m \in DOMAIN io :
                                              io[m].op = "write" /\ Covers(io[m], s)})
                                 = (IF io[j + 1].ret = 0 THEN 1 ELSE 0)
                           /\ (last = n =>
                                 /\ sector = s + 1
                                 /\ pc \in (IF s + 1 < ChunkEndAt(j)
                                            THEN {"fb_loop", "fb_seek"}
                                            ELSE {"fb_loop", "advance", "loop",
                                                  "seek", "fsync"}))
                           /\ (last < n =>
                                 IF s + 1 < ChunkEndAt(j)
                                 THEN /\ io[last + 1].op = "lseek"
                                      /\ io[last + 1].ctx = "fb"
                                      /\ io[last + 1].pos = s + 1
                                 ELSE io[last + 1].ctx = "main"))

\* A Fix fallback in which the rewrite of a bad sector failed, the failure
\* notice was printed, and the next sector of the chunk was still seeked.
C15_Witness ==
    /\ dc = DEV_FIX
    /\ \E j \in DOMAIN io :
          /\ MediaErrorRead(j)
          /\ j + 3 <= Len(io)
          /\ io[j + 2].op = "write" /\ io[j + 2].ret # 1
          /\ io[j + 3].op = "lseek" /\ io[j + 3].ctx = "fb"
          /\ io[j + 3].pos = io[j].pos + 1
          /\ \E t \in SectorNotices(io[j].pos) : out[t].msg = "Error sector"

\* ----------------------------------------------------------------- C16
\* C16: for every chunk size option parsing accepts, the buffer allocated at
\* line 229 holds block_sectors * 512 bytes, and so at least the byte count
\* of every bulk read or bulk write issued into or from it.
C16_BufferHoldsEveryTransfer ==
    allocated =>
        /\ AllocArg(block_sectors) = block_sectors
        /\ \A i \in DOMAIN io :
              IsChunkIO(io[i]) => io[i].len <= AllocArg(block_sectors)

\* The part of C16 about the transfers alone: no bulk read or write asks for
\* more sectors than the buffer holds.
C16_NoTransferBeyondBuffer ==
    \A i \in DOMAIN io :
        IsChunkIO(io[i]) => io[i].len <= AllocArg(block_sectors)

\* ----------------------------------------------------------------- C17
\* C17: the device is opened read-only by Check and read-write by Fix and
\* Format, and in Format mode no read, bulk or per-sector, is ever issued,
\* also after a short or failed bulk write.
C17_OpenModeAndFormatNeverReads ==
    /\ (devfd # "none" =>
          /\ (dc = DEV_CHECK => flags = "O_RDONLY")
          /\ (dc \in {DEV_FIX, DEV_FORMAT} => flags = "O_RDWR"))
    /\ (dc = DEV_FORMAT =>
          /\ \A i \in DOMAIN io : io[i].op # "read" /\ io[i].ctx = "main"
          /\ pc \notin {"read", "fb_loop", "fb_seek", "fb_read", "fb_wseek",
                         "fb_write"})

\* A Format pass that went on to a further chunk after a short bulk write and
\* after a failed one.
C17_Witness ==
    /\ dc = DEV_FORMAT
    /\ flags = "O_RDWR"
    /\ pc = "done" /\ ret = 0
    /\ \E i, j \in DOMAIN io :
          /\ i < j
          /\ io[i].op = "write" /\ io[i].ret = -1
          /\ io[j].op = "write" /\ io[j].ret >= 0 /\ io[j].ret < io[j].len

\* ----------------------------------------------------------------- C18
\* The chunk's bulk transfer is done and the offset not yet advanced.
ChunkPending ==
    pc \in {"fb_loop", "fb_seek", "fb_read", "fb_wseek", "fb_write", "advance"}

\* C18: print_progress is called once after every processed chunk, healthy
\* or failed, with the cumulative byte count up to the end of that chunk: the
\* counts of the non-final calls are strictly increasing and never exceed the
\* device size in bytes, and the final call carries the count of the last
\* chunk, the whole device extent.
C18_ProgressAfterEveryChunk ==
    LET ch == Chunks
        nonfinal == {i \in DOMAIN calls : ~calls[i].final}
    IN  /\ Cardinality(nonfinal) = (IF ChunkPending THEN Len(ch) - 1 ELSE Len(ch))
        /\ \A i \in nonfinal :
              /\ i <= Len(ch)
              /\ calls[i].bytes = (ch[i].pos + ch[i].len) * SECTOR_SIZE
              /\ calls[i].bytes <= dev_size_sec * SECTOR_SIZE
              /\ calls[i].bytes > 0
              /\ (i > 1 => calls[i].bytes > calls[i - 1].bytes)
        /\ \A i \in DOMAIN calls :
              calls[i].final =>
                 /\ i = Len(calls)
                 /\ calls[i].bytes = offset_sec * SECTOR_SIZE
                 /\ calls[i].bytes = dev_size_sec * SECTOR_SIZE
                 /\ (i > 1 => calls[i].bytes = calls[i - 1].bytes)

\* A completed pass of several chunks, the first of which failed its bulk
\* read and was abandoned by the fallback, with its progress calls.
C18_Witness ==
    /\ pc = "done" /\ ret = 0
    /\ Len(calls) >= 3
    /\ Len(Chunks) >= 2
    /\ Chunks[1].ret # Chunks[1].len
    /\ \E i \in DOMAIN out : out[i].msg \in {"Seek error", "Error sector"}
    /\ calls[Len(calls)].final
    /\ calls[Len(calls)].bytes = dev_size_sec * SECTOR_SIZE

\* ----------------------------------------------------------------- C19
\* C19: a one-sector read of the fallback that returns less than the sector
\* without setting errno is never classified as an expected media error: no
\* bad-sector notice is printed for its sector and the sector is not
\* rewritten, whatever errno an earlier failed call has left behind.
C19_ShortReadNeverMediaError ==
    \A j \in DOMAIN io :
        (io[j].op = "read" /\ io[j].ctx = "fb" /\ io[j].ret = 0) =>
            /\ ~(pc \in {"fb_wseek", "fb_write"} /\ sector = io[j].pos)
            /\ \A m \in DOMAIN io :
                  ~(io[m].ctx = "fix" /\ io[m].pos = io[j].pos)
            /\ \A t \in SectorNotices(io[j].pos) :
                  out[t].msg \notin {"IO error sector", "Bad sector wiped"}

\* The part of C19 the code keeps: a short read met with no EIO or EILSEQ
\* left in errno is reported as an error and its sector is not rewritten.
C19_ShortReadWithCleanErrno ==
    \A j \in DOMAIN io :
        (io[j].op = "read" /\ io[j].ctx = "fb" /\ io[j].ret = 0
           /\ io[j].errno \notin {EIO, EILSEQ}) =>
            /\ \A m \in DOMAIN io :
                  ~(io[m].ctx = "fix" /\ io[m].pos = io[j].pos)
            /\ \E t \in SectorNotices(io[j].pos) : out[t].msg = "Error sector"

\* ----------------------------------------------------------------- C20
\* The whole MiB of the device, as line 156 computes them.
TotalMiB == ((dev_size_sec * SECTOR_SIZE) \div 1024) \div 1024

\* C20: whenever print_progress computes the ETA at line 156 its value is not
\* negative before the conversion to an integer: the call has a cumulative
\* byte count of at most the device size, a non-zero elapsed time and a
\* non-zero count of whole MiB, and total MiB * elapsed / processed MiB is at
\* least the elapsed time.
C20_EtaNotNegative ==
    \A i \in DOMAIN calls :
        calls[i].divs = 2 =>
            /\ calls[i].bytes <= dev_size_sec * SECTOR_SIZE
            /\ calls[i].tdiff # 0
            /\ calls[i].mbytes # 0
            /\ calls[i].eta >= 0

\* C20 as amended: whenever print_progress computes the ETA the call has a
\* cumulative byte count of at most the device size, a non-zero elapsed time
\* and a non-zero count of whole MiB; in exact arithmetic total MiB * elapsed
\* / processed MiB is at least the elapsed time whenever the elapsed time is
\* positive, and equal to it on the final call; the value the two double
\* divisions give is more than -1, so that its conversion to an unsigned
\* integer is defined and the ETA printed is not negative.
C20_EtaAboveMinusOne ==
    \A i \in DOMAIN calls :
        calls[i].divs = 2 =>
            /\ calls[i].bytes <= dev_size_sec * SECTOR_SIZE
            /\ calls[i].tdiff # 0
            /\ calls[i].mbytes # 0
            /\ calls[i].mbytes <= TotalMiB
            /\ (calls[i].tdiff > 0 =>
                   TotalMiB * calls[i].tdiff >= calls[i].mbytes * calls[i].tdiff)
            /\ (calls[i].final => calls[i].mbytes = TotalMiB)
            /\ (~calls[i].final => calls[i].tdiff > 0)
            /\ calls[i].eta > 0 - EtaSecond
            /\ (calls[i].mbytes < TotalMiB => calls[i].eta > 0)

\* A progress report with a positive ETA, and later a call on which the two
\* divisions round the ETA below zero.
C20_Witness ==
    \E i, j \in DOMAIN calls :
       /\ i < j
       /\ calls[i].divs = 2 /\ calls[i].line = "Progress" /\ calls[i].eta > 0
       /\ calls[j].divs = 2 /\ calls[j].eta < 0

====
